---- MODULE Spec2Model ----
(***************************************************************************)
(* A model of app.py (BTN Originals): the lyrics sanitiser clean_lyrics,   *)
(* the local keyword extractor, per-page keyword generation, PDF text      *)
(* extraction, the song generation / output recovery function              *)
(* generate_songs and the session-state wiring of the Generate and Clear   *)
(* handlers.  Text is a sequence of one-character strings.                 *)
(***************************************************************************)
EXTENDS Integers, Sequences, FiniteSets, TLC

VARIABLES
    lyrics,     \* the text handed to clean_lyrics
    once,       \* clean_lyrics(lyrics)
    twice,      \* clean_lyrics(clean_lyrics(lyrics))
    cpc,        \* "input", "once" or "twice"
    nchunks,    \* pieces the text was put together from
    page_text,  \* the page handed to local_single_word_keywords
    nwords,     \* pieces the page was put together from
    topn,       \* the topn argument
    common,     \* what local_single_word_keywords returned
    kpc,        \* "input" or "done"
    pdf,            \* what extract_text() gives for each page of the file
    max_pages,      \* the max_pages argument of both functions
    chapter_text,   \* what extract_text_from_pdf returned
    pages,          \* the page blocks generate_keywords_per_page works on
    model_available,
    idx,            \* pages the loop has been through
    results,        \* the lines produced so far
    replies,        \* what the model call did for each page visited
    keywords,       \* what generate_keywords_per_page returned
    ppc,            \* "file", "extracted", "loop" or "done"
    api_key_set,    \* bool(api_key)
    styles,         \* the styles argument
    raw_text,       \* the text of the model's response
    result,         \* what generate_songs gave
    gpc,            \* "enter", "init", "call", "recover" or "done"
    song_data,          \* st.session_state.song_data
    keywords_per_page,  \* st.session_state.keywords_per_page
    uploaded_file,      \* the file of the last Generate click
    run_text,           \* chapter_text of the last Generate click
    invoked,            \* generate_songs was called in the last click
    notice,             \* what the last handler run showed
    apc                 \* "idle", or "keywords" between the two assignments

cleanVars == <<lyrics, once, twice, cpc, nchunks>>
kwVars == <<page_text, nwords, topn, common, kpc>>
pageVars == <<pdf, max_pages, chapter_text, pages, model_available, idx,
              results, replies, keywords, ppc>>
songVars == <<api_key_set, styles, raw_text, result, gpc>>
appVars == <<song_data, keywords_per_page, uploaded_file, run_text, invoked,
             notice, apc>>
vars == <<lyrics, once, twice, cpc, nchunks, page_text, nwords, topn, common,
          kpc, pdf, max_pages, chapter_text, pages, model_available, idx,
          results, replies, keywords, ppc, api_key_set, styles, raw_text,
          result, gpc, song_data, keywords_per_page, uploaded_file, run_text,
          invoked, notice, apc>>

\* ------------------------------------------------------------------------
\* Characters
\* ------------------------------------------------------------------------
Digits == {"0", "1", "2", "3", "4", "5", "6", "7", "8", "9"}

UpperSeq == <<"A", "B", "C", "D", "E", "F", "G", "H", "I", "J", "K", "L", "M",
              "N", "O", "P", "Q", "R", "S", "T", "U", "V", "W", "X", "Y", "Z">>

LowerSeq == <<"a", "b", "c", "d", "e", "f", "g", "h", "i", "j", "k", "l", "m",
              "n", "o", "p", "q", "r", "s", "t", "u", "v", "w", "x", "y", "z">>

Letters == {UpperSeq[i] : i \in 1..26} \cup {LowerSeq[i] : i \in 1..26}

\* \w of the re module on the modelled alphabet
WordChars == Digits \cup Letters \cup {"_"}

\* \s of the re module, and what str.strip() / str.split() treat as blank
SpaceChars == {" ", "\t", "\n", "\r"}

\* the operator class [=↔→<>+\-/*^] of clean_lyrics
OpChars == {"=", "↔", "→", "<", ">", "+", "-", "/", "*", "^"}

\* Python's None, and an exception raised instead of a value
None == <<"None">>
Raised == <<"raise">>

\* bool(x) of a string or None
Truthy(x) == x # None /\ x # <<>>

\* str.lower() on one character
LowerChar(c) ==
    IF \E i \in 1..26 : UpperSeq[i] = c
    THEN LowerSeq[CHOOSE i \in 1..26 : UpperSeq[i] = c]
    ELSE c

\* str.lower()
Lower(s) == [i \in 1..Len(s) |-> LowerChar(s[i])]

\* number of consecutive characters from position i that are in S (neg =
\* FALSE) or not in S (neg = TRUE), at most cap of them
RECURSIVE RunIn(_, _, _, _, _)
RunIn(S, neg, s, i, cap) ==
    IF cap = 0 \/ i > Len(s) THEN 0
    ELSE IF (s[i] \in S) # neg THEN 1 + RunIn(S, neg, s, i + 1, cap - 1)
    ELSE 0

\* does t occur in s at position i
OccursAt(t, s, i) ==
    /\ i + Len(t) - 1 <= Len(s)
    /\ \A k \in 1..Len(t) : s[i + k - 1] = t[k]

\* t in s (substring test)
Contains(s, t) == \E i \in 1..(Len(s) + 1) : OccursAt(t, s, i)

\* q[:n] for n >= 0
FirstN(q, n) == SubSeq(q, 1, IF Len(q) < n THEN Len(q) ELSE n)

\* str.strip()
Strip(s) ==
    LET lead == RunIn(SpaceChars, FALSE, s, 1, Len(s))
    IN IF lead = Len(s) THEN <<>>
       ELSE LET last == CHOOSE j \in 1..Len(s) :
                            /\ s[j] \notin SpaceChars
                            /\ \A k \in (j + 1)..Len(s) : s[k] \in SpaceChars
            IN SubSeq(s, lead + 1, last)

\* ------------------------------------------------------------------------
\* clean_lyrics
\* ------------------------------------------------------------------------
\* the replacement strings " [formula] " and " [num] "
FormulaRepl == <<" ", "[", "f", "o", "r", "m", "u", "l", "a", "]", " ">>
NumRepl == <<" ", "[", "n", "u", "m", "]", " ">>
FormulaTag == <<"[", "f", "o", "r", "m", "u", "l", "a", "]">>
NumTag == <<"[", "n", "u", "m", "]">>

\* how many characters [^\n]{0,40} may take on each side of an operator cluster
FragCap == 40
\* a matched fragment longer than this is replaced
FragKeep == 12
\* \d{4,}
LongNum == 4
\* numeric tokens kept by _replace_late_nums
NumCap == 6

\* first position j >= from where w dollars stand, 0 when there is none
RECURSIVE FindDollars(_, _, _)
FindDollars(s, j, w) ==
    IF j + w - 1 > Len(s) THEN 0
    ELSE IF \A k \in 0..(w - 1) : s[j + k] = "$" THEN j
    ELSE FindDollars(s, j + 1, w)

\* re.sub(r"\$\$.*?\$\$", " [formula] ", s, flags=re.S) for w = 2 and
\* re.sub(r"\$.*?\$", " [formula] ", s, flags=re.S) for w = 1
RECURSIVE SubDollar(_, _, _)
SubDollar(s, i, w) ==
    IF i > Len(s) THEN <<>>
    ELSE LET open == /\ i + w - 1 <= Len(s)
                     /\ \A k \in 0..(w - 1) : s[i + k] = "$"
             j == IF open THEN FindDollars(s, i + w, w) ELSE 0
         IN IF j > 0 THEN FormulaRepl \o SubDollar(s, j + w, w)
            ELSE <<s[i]>> \o SubDollar(s, i + 1, w)

\* length of the match of [^\n]{0,40}[ops]{2,}[^\n]{0,40} at position i, 0
\* when it does not match there: the greedy prefix backs off to the last
\* place where two operator characters stand
FragMatchLen(s, i) ==
    LET pre == RunIn({"\n"}, TRUE, s, i, FragCap)
        starts == {a \in 0..pre : /\ i + a + 1 <= Len(s)
                                  /\ s[i + a] \in OpChars
                                  /\ s[i + a + 1] \in OpChars}
    IN IF starts = {} THEN 0
       ELSE LET a == CHOOSE x \in starts : \A y \in starts : y <= x
                m == RunIn(OpChars, FALSE, s, i + a, Len(s))
                t == RunIn({"\n"}, TRUE, s, i + a + m, FragCap)
            IN a + m + t

\* the operator-cluster substitution of clean_lyrics
RECURSIVE SubFragments(_, _)
SubFragments(s, i) ==
    IF i > Len(s) THEN <<>>
    ELSE LET n == FragMatchLen(s, i)
         IN IF n = 0 THEN <<s[i]>> \o SubFragments(s, i + 1)
            ELSE (IF n > FragKeep THEN FormulaRepl ELSE SubSeq(s, i, i + n - 1))
                     \o SubFragments(s, i + n)

\* length of the match of \b\d+\b at position i, 0 when it does not match
NumTokenLen(s, i) ==
    IF i > Len(s) \/ s[i] \notin Digits THEN 0
    ELSE IF i > 1 /\ s[i - 1] \in WordChars THEN 0
    ELSE LET d == RunIn(Digits, FALSE, s, i, Len(s))
         IN IF i + d <= Len(s) /\ s[i + d] \in WordChars THEN 0 ELSE d

\* re.findall(r"\b\d+\b", s), scanning from position i
RECURSIVE FindNums(_, _)
FindNums(s, i) ==
    IF i > Len(s) THEN <<>>
    ELSE LET d == NumTokenLen(s, i)
         IN IF d = 0 THEN FindNums(s, i + 1)
            ELSE <<SubSeq(s, i, i + d - 1)>> \o FindNums(s, i + d)

\* re.sub(r"\b\d{4,}\b", " [num] ", s)
RECURSIVE SubLongNums(_, _)
SubLongNums(s, i) ==
    IF i > Len(s) THEN <<>>
    ELSE LET d == NumTokenLen(s, i)
         IN IF d >= LongNum THEN NumRepl \o SubLongNums(s, i + d)
            ELSE <<s[i]>> \o SubLongNums(s, i + 1)

\* _replace_late_nums with the counter compared by <= : one number too many
\* is kept
RECURSIVE ReplaceLateNumsOneMore(_, _, _)
ReplaceLateNumsOneMore(s, i, count) ==
    IF i > Len(s) THEN <<>>
    ELSE LET d == NumTokenLen(s, i)
         IN IF d = 0 THEN <<s[i]>> \o ReplaceLateNumsOneMore(s, i + 1, count)
            ELSE IF count <= NumCap
                 THEN SubSeq(s, i, i + d - 1)
                          \o ReplaceLateNumsOneMore(s, i + d, count + 1)
                 ELSE NumRepl \o ReplaceLateNumsOneMore(s, i + d, count)

\* re.sub(r"\b\d+\b", _replace_late_nums, s) with the callback's counter
RECURSIVE ReplaceLateNums(_, _, _)
ReplaceLateNums(s, i, count) ==
    IF i > Len(s) THEN <<>>
    ELSE LET d == NumTokenLen(s, i)
         IN IF d = 0 THEN <<s[i]>> \o ReplaceLateNums(s, i + 1, count)
            ELSE IF count < NumCap
                 THEN SubSeq(s, i, i + d - 1) \o ReplaceLateNums(s, i + d, count + 1)
                 ELSE NumRepl \o ReplaceLateNums(s, i + d, count)

\* the "if len(nums) > 6" step of clean_lyrics
LimitNums(s) ==
    IF Len(FindNums(s, 1)) > NumCap THEN ReplaceLateNums(s, 1, 0) ELSE s

\* end of the run (tag \s*)* matched from position i, with its repeat count
RECURSIVE TagRun(_, _, _, _)
TagRun(tag, s, i, n) ==
    IF OccursAt(tag, s, i)
    THEN LET j == i + Len(tag)
         IN TagRun(tag, s, j + RunIn(SpaceChars, FALSE, s, j, Len(s)), n + 1)
    ELSE [n |-> n, end |-> i]

\* re.sub(r"(\[formula\]\s*){2,}", "[formula] ", s), and the same for [num]
RECURSIVE CompressTags(_, _, _)
CompressTags(tag, s, i) ==
    IF i > Len(s) THEN <<>>
    ELSE LET r == TagRun(tag, s, i, 0)
         IN IF r.n >= 2 THEN tag \o <<" ">> \o CompressTags(tag, s, r.end)
            ELSE <<s[i]>> \o CompressTags(tag, s, i + 1)

\* re.sub of a run of at least `least` characters of S by repl
RECURSIVE SubRuns(_, _, _, _, _)
SubRuns(S, least, repl, s, i) ==
    IF i > Len(s) THEN <<>>
    ELSE LET n == RunIn(S, FALSE, s, i, Len(s))
         IN IF n >= least THEN repl \o SubRuns(S, least, repl, s, i + n)
            ELSE <<s[i]>> \o SubRuns(S, least, repl, s, i + 1)

\* clean_lyrics up to and including the long-number redaction
RedactFormulasAndLongNums(s) ==
    SubLongNums(SubFragments(SubDollar(SubDollar(s, 1, 2), 1, 1), 1), 1)

\* clean_lyrics from the placeholder compression on
CompressAndTrim(s) ==
    Strip(SubRuns({" ", "\t"}, 2, <<" ">>,
          SubRuns({"\n"}, 3, <<"\n", "\n">>,
          CompressTags(NumTag, CompressTags(FormulaTag, s, 1), 1), 1), 1))

clean_lyrics(text) ==
    IF text = <<>> THEN text
    ELSE CompressAndTrim(LimitNums(RedactFormulasAndLongNums(text)))

\* ------------------------------------------------------------------------
\* local_single_word_keywords
\* ------------------------------------------------------------------------
STOPWORDS ==
    {<<"t", "h", "e">>, <<"a", "n", "d">>, <<"f", "o", "r">>,
     <<"w", "i", "t", "h">>, <<"t", "h", "a", "t">>, <<"t", "h", "i", "s">>,
     <<"f", "r", "o", "m">>, <<"a", "r", "e">>, <<"i", "s">>,
     <<"w", "a", "s">>, <<"w", "e", "r", "e">>, <<"b", "e">>, <<"b", "y">>,
     <<"t", "o">>, <<"o", "f">>, <<"i", "n">>, <<"o", "n">>, <<"a", "s">>,
     <<"a", "n">>, <<"a", "t">>, <<"i", "t">>, <<"i", "t", "s">>,
     <<"w", "h", "i", "c", "h">>, <<"a">>}

\* re.sub(r"[^A-Za-z0-9\s]", " ", s)
BlankPunctuation(s) ==
    [i \in 1..Len(s) |->
        IF s[i] \in Digits \cup Letters \cup SpaceChars THEN s[i] ELSE " "]

\* str.split(): the maximal runs of non-blank characters from position i
RECURSIVE SplitFrom(_, _)
SplitFrom(s, i) ==
    IF i > Len(s) THEN <<>>
    ELSE IF s[i] \in SpaceChars THEN SplitFrom(s, i + 1)
    ELSE LET n == RunIn(SpaceChars, TRUE, s, i, Len(s))
         IN <<SubSeq(s, i, i + n - 1)>> \o SplitFrom(s, i + n)

Split(s) == SplitFrom(s, 1)

\* str.isdigit() on a token of letters and digits
IsDigit(t) == Len(t) > 0 /\ \A i \in 1..Len(t) : t[i] \in Digits

\* shortest token local_single_word_keywords keeps is longer than this
MinLocalLen == 3

\* the token filter with len(t) >= 3: tokens of three characters get through
RECURSIVE LocalTokensFromThree(_, _)
LocalTokensFromThree(ws, i) ==
    IF i > Len(ws) THEN <<>>
    ELSE (IF Len(ws[i]) >= MinLocalLen /\ ~IsDigit(ws[i])
          THEN <<Lower(ws[i])>> ELSE <<>>) \o LocalTokensFromThree(ws, i + 1)

\* tokens = [t.lower() for t in txt.split() if len(t) > 3 and not t.isdigit()]
RECURSIVE LocalTokens(_, _)
LocalTokens(ws, i) ==
    IF i > Len(ws) THEN <<>>
    ELSE (IF Len(ws[i]) > MinLocalLen /\ ~IsDigit(ws[i])
          THEN <<Lower(ws[i])>> ELSE <<>>) \o LocalTokens(ws, i + 1)

\* the keys of Counter(tokens), in insertion order
RECURSIVE CounterKeys(_, _, _)
CounterKeys(tokens, i, keys) ==
    IF i > Len(tokens) THEN keys
    ELSE CounterKeys(tokens, i + 1,
             IF \E k \in 1..Len(keys) : keys[k] = tokens[i]
             THEN keys ELSE Append(keys, tokens[i]))

\* counts[w]
CountOf(tokens, w) == Cardinality({i \in 1..Len(tokens) : tokens[i] = w})

\* for s in list(counts): if s in STOPWORDS: del counts[s]
RECURSIVE DropStopwords(_, _)
DropStopwords(keys, i) ==
    IF i > Len(keys) THEN <<>>
    ELSE (IF keys[i] \in STOPWORDS THEN <<>> ELSE <<keys[i]>>)
             \o DropStopwords(keys, i + 1)

\* counts.most_common(n): n times the remaining key of largest count, the
\* earliest inserted among equals
RECURSIVE MostCommon(_, _, _)
MostCommon(tokens, keys, n) ==
    IF n <= 0 \/ keys = <<>> THEN <<>>
    ELSE LET best == CHOOSE k \in 1..Len(keys) :
                 /\ \A j \in 1..Len(keys) :
                        CountOf(tokens, keys[j]) <= CountOf(tokens, keys[k])
                 /\ \A j \in 1..(k - 1) :
                        CountOf(tokens, keys[j]) < CountOf(tokens, keys[k])
             rest == [j \in 1..(Len(keys) - 1) |->
                         IF j < best THEN keys[j] ELSE keys[j + 1]]
         IN <<keys[best]>> \o MostCommon(tokens, rest, n - 1)

local_single_word_keywords(text, n) ==
    LET tokens == LocalTokens(Split(BlankPunctuation(text)), 1)
    IN IF tokens = <<>> THEN <<>>
       ELSE FirstN(MostCommon(tokens,
                       DropStopwords(CounterKeys(tokens, 1, <<>>), 1), n), n)

\* ------------------------------------------------------------------------
\* extract_text_from_pdf
\* ------------------------------------------------------------------------
\* the default of max_pages, and what the Generate handler passes
DefaultMaxPages == 35

PageBreak == <<"\n", "\n">>

Min(a, b) == IF a < b THEN a ELSE b

\* the loop over pdf.pages[0 .. pages_to - 1]
RECURSIVE ExtractPages(_, _, _)
ExtractPages(file, i, pages_to) ==
    IF i > pages_to THEN <<>>
    ELSE (IF Truthy(file[i]) THEN Strip(file[i]) \o PageBreak ELSE <<>>)
             \o ExtractPages(file, i + 1, pages_to)

\* file[i] is what extract_text() gives for page i: a text, None, or Raised;
\* an exception on any page read makes the function return None
extract_text_from_pdf(file, maxp) ==
    LET pages_to == Min(Len(file), maxp)
    IN IF \E i \in 1..pages_to : file[i] = Raised THEN None
       ELSE ExtractPages(file, 1, pages_to)

\* ------------------------------------------------------------------------
\* generate_keywords_per_page
\* ------------------------------------------------------------------------
\* str.split(sep) from position i, piece being the part collected so far
RECURSIVE SplitOnFrom(_, _, _, _)
SplitOnFrom(s, sep, i, piece) ==
    IF i > Len(s) THEN <<piece>>
    ELSE IF OccursAt(sep, s, i)
         THEN <<piece>> \o SplitOnFrom(s, sep, i + Len(sep), <<>>)
         ELSE SplitOnFrom(s, sep, i + 1, Append(piece, s[i]))

SplitOn(s, sep) == SplitOnFrom(s, sep, 1, <<>>)

\* str.replace(old, "")
RECURSIVE Remove(_, _, _)
Remove(s, old, i) ==
    IF i > Len(s) THEN <<>>
    ELSE IF OccursAt(old, s, i) THEN Remove(s, old, i + Len(old))
    ELSE <<s[i]>> \o Remove(s, old, i + 1)

\* sep.join(parts)
RECURSIVE Join(_, _)
Join(parts, sep) ==
    IF parts = <<>> THEN <<>>
    ELSE IF Len(parts) = 1 THEN parts[1]
    ELSE parts[1] \o sep \o Join(Tail(parts), sep)

\* [p.strip() for p in parts if p.strip()]
RECURSIVE StripNonEmpty(_)
StripNonEmpty(parts) ==
    IF parts = <<>> THEN <<>>
    ELSE (IF Strip(parts[1]) # <<>> THEN <<Strip(parts[1])>> ELSE <<>>)
             \o StripNonEmpty(Tail(parts))

\* pages = [p.strip() for p in text_content.split("\n\n") if p.strip()][:max_pages]
PageBlocks(text_content, maxp) ==
    FirstN(StripNonEmpty(SplitOn(text_content, PageBreak)), maxp)

\* two characters a TLA+ string cannot hold stand under their names
Backtick == "backtick"
EmDash == "emdash"

Fence == <<Backtick, Backtick, Backtick>>
NoText == <<"N", "o", " ", "t", "e", "x", "t", " ", "t", "o", " ", "s", "u",
            "m", "m", "a", "r", "i", "s", "e", ".">>
Dash == <<EmDash>>
CommaSpace == <<",", " ">>

\* keywords kept per page
KeywordsPerPage == 10
\* a model keyword is longer than this
MinModelLen == 2

\* the first line with something on it, stripped; "" when there is none
RECURSIVE FirstNonEmptyLine(_)
FirstNonEmptyLine(lns) ==
    IF lns = <<>> THEN <<>>
    ELSE IF Strip(lns[1]) # <<>> THEN Strip(lns[1])
    ELSE FirstNonEmptyLine(Tail(lns))

\* re.split(r",|;|\s+", first) without its empty pieces
RECURSIVE SplitCandidates(_, _)
SplitCandidates(s, i) ==
    IF i > Len(s) THEN <<>>
    ELSE IF s[i] \in SpaceChars \cup {",", ";"} THEN SplitCandidates(s, i + 1)
    ELSE LET n == RunIn(SpaceChars \cup {",", ";"}, TRUE, s, i, Len(s))
         IN <<SubSeq(s, i, i + n - 1)>> \o SplitCandidates(s, i + n)

\* re.sub(r"[^A-Za-z0-9]", "", c).lower()
RECURSIVE AlnumLower(_)
AlnumLower(c) ==
    IF c = <<>> THEN <<>>
    ELSE (IF c[1] \in Digits \cup Letters THEN <<LowerChar(c[1])>> ELSE <<>>)
             \o AlnumLower(Tail(c))

\* the filter and the "unique preserve order" loop over the candidates
RECURSIVE UniqueKept(_, _, _)
UniqueKept(cand, i, kws) ==
    IF i > Len(cand) \/ Len(kws) >= KeywordsPerPage THEN kws
    ELSE LET c == AlnumLower(cand[i])
             keep == /\ Len(c) > MinModelLen
                     /\ ~IsDigit(c)
                     /\ c \notin STOPWORDS
                     /\ \A k \in 1..Len(kws) : kws[k] # c
         IN UniqueKept(cand, i + 1, IF keep THEN Append(kws, c) ELSE kws)

\* the body of the try block: the keywords read from the model's reply; a
\* call that raises leaves kws = []
ModelKeywords(reply) ==
    IF reply = Raised THEN <<>>
    ELSE LET raw == Strip(IF reply = None THEN <<>> ELSE reply)
             cleaned == Strip(Remove(raw, Fence, 1))
             first == FirstNonEmptyLine(SplitOn(cleaned, <<"\n">>))
         IN IF first = <<>> THEN <<>>
            ELSE UniqueKept(SplitCandidates(first, 1), 1, <<>>)

\* the loop body with the local extractor used only when there is no model:
\* a page whose call fails gets the placeholder
PageLineNoFallback(available, text, reply) ==
    LET kws == IF available THEN ModelKeywords(reply)
               ELSE local_single_word_keywords(text, KeywordsPerPage)
    IN IF kws # <<>> THEN Join(FirstN(kws, KeywordsPerPage), CommaSpace)
       ELSE Dash

\* one pass of the loop body: the line appended for a page
PageLine(available, text, reply) ==
    LET tried == IF available THEN ModelKeywords(reply) ELSE <<>>
        kws == IF tried = <<>>
               THEN local_single_word_keywords(text, KeywordsPerPage)
               ELSE tried
    IN IF kws # <<>> THEN Join(FirstN(kws, KeywordsPerPage), CommaSpace)
       ELSE Dash

\* the lines of the loop for the page blocks from i on, reps[i] being what
\* the model call of block i does
RECURSIVE KeywordLines(_, _, _, _)
KeywordLines(available, blocks, reps, i) ==
    IF i > Len(blocks) THEN <<>>
    ELSE <<PageLine(available, blocks[i], reps[i])>>
             \o KeywordLines(available, blocks, reps, i + 1)

\* generate_keywords_per_page as a whole; available is FALSE when no API
\* key is set or GenerativeModel() raises
generate_keywords_per_page(text_content, maxp, available, reps) ==
    IF ~Truthy(text_content) THEN NoText
    ELSE Join(KeywordLines(available, PageBlocks(text_content, maxp), reps, 1),
              <<"\n">>)

\* ------------------------------------------------------------------------
\* json.loads
\* ------------------------------------------------------------------------
\* a parsed value: t is "dict", "list", "str", "num", "null", "true",
\* "false" or "float" (NaN and the infinities); s holds the text of a string
\* or number, keys the keys of a dict in insertion order, items the elements
\* of a list or the values of a dict
JValue(t, s, keys, items) == [t |-> t, s |-> s, keys |-> keys, items |-> items]
JStr(s) == JValue("str", s, <<>>, <<>>)
JNum(s) == JValue("num", s, <<>>, <<>>)
JLit(t) == JValue(t, <<>>, <<>>, <<>>)
JList(items) == JValue("list", <<>>, <<>>, items)
JDict(keys, items) == JValue("dict", <<>>, keys, items)
JNull == JLit("null")

Parsed(val, pos) == [ok |-> TRUE, val |-> val, pos |-> pos]
ParseError == [ok |-> FALSE, val |-> JNull, pos |-> 0]

JsonSpace == {" ", "\t", "\n", "\r"}

SkipWs(s, i) == i + RunIn(JsonSpace, FALSE, s, i, Len(s))

At(s, i) == IF i >= 1 /\ i <= Len(s) THEN s[i] ELSE "EOF"

\* d[key] = val of a dict under construction
DictSet(keys, items, key, val) ==
    IF \E k \in 1..Len(keys) : keys[k] = key
    THEN [keys |-> keys,
          items |-> [k \in 1..Len(items) |-> IF keys[k] = key THEN val ELSE items[k]]]
    ELSE [keys |-> Append(keys, key), items |-> Append(items, val)]

\* the character an escape stands for, "" for \u and for no escape at all
Unescape(c) ==
    CASE c = "\"" -> "\""
      [] c = "\\" -> "\\"
      [] c = "/" -> "/"
      [] c = "n" -> "\n"
      [] c = "r" -> "\r"
      [] c = "t" -> "\t"
      [] c = "b" -> "backspace"
      [] c = "f" -> "formfeed"
      [] OTHER -> ""

\* the rest of a string literal from position i (strict: no control
\* character may stand in it; \u escapes are not modelled and fail)
RECURSIVE ScanString(_, _, _)
ScanString(s, i, acc) ==
    IF i > Len(s) THEN ParseError
    ELSE IF s[i] = "\"" THEN Parsed(JStr(acc), i + 1)
    ELSE IF s[i] \in {"\n", "\t", "\r"} THEN ParseError
    ELSE IF s[i] = "\\"
         THEN IF Unescape(At(s, i + 1)) = "" THEN ParseError
              ELSE ScanString(s, i + 2, Append(acc, Unescape(At(s, i + 1))))
    ELSE ScanString(s, i + 1, Append(acc, s[i]))

\* length of the match of (-?(?:0|[1-9]\d*))(\.\d+)?([eE][-+]?\d+)? at i,
\* group by group
NumberLen(s, i) ==
    LET \* an optional group: its introduction and one digit at least
        Optional(intro, digits) == IF digits > 0 THEN intro + digits ELSE 0
        DigitsAt(j) == RunIn(Digits, FALSE, s, j, Len(s))
        SignLen(j) == IF At(s, j) \in {"+", "-"} THEN 1 ELSE 0
        IntLen(j) == IF At(s, j) = "0" THEN 1 ELSE DigitsAt(j)
        FracLen(k) == IF At(s, k) = "." THEN Optional(1, DigitsAt(k + 1)) ELSE 0
        ExpDigits(m, esign) == Optional(1 + esign, DigitsAt(m + 1 + esign))
        ExpLen(m) ==
            IF At(s, m) \in {"e", "E"} THEN ExpDigits(m, SignLen(m + 1)) ELSE 0
        AfterFrac(m, frac) == frac + ExpLen(m + frac)
        AfterInt(j, int) ==
            IF int = 0 THEN 0 ELSE int + AfterFrac(j + int, FracLen(j + int))
        AfterSign(j, sign) == Optional(sign, AfterInt(j, IntLen(j)))
    IN IF At(s, i) = "-" THEN AfterSign(i + 1, 1) ELSE AfterSign(i, 0)

\* a value that is no object and no array, at position i
ScanScalar(s, i) ==
    LET Infinity == <<"I", "n", "f", "i", "n", "i", "t", "y">>
        \* the number of n characters, or NaN or an infinity
        ScanNumber(n) ==
            IF n > 0 THEN Parsed(JNum(SubSeq(s, i, i + n - 1)), i + n)
            ELSE IF OccursAt(<<"N", "a", "N">>, s, i)
                 THEN Parsed(JLit("float"), i + 3)
            ELSE IF OccursAt(Infinity, s, i) THEN Parsed(JLit("float"), i + 8)
            ELSE IF OccursAt(<<"-">> \o Infinity, s, i)
                 THEN Parsed(JLit("float"), i + 9)
            ELSE ParseError
    IN IF i > Len(s) THEN ParseError
       ELSE IF s[i] = "\"" THEN ScanString(s, i + 1, <<>>)
       ELSE IF OccursAt(<<"n", "u", "l", "l">>, s, i) THEN Parsed(JNull, i + 4)
       ELSE IF OccursAt(<<"t", "r", "u", "e">>, s, i)
            THEN Parsed(JLit("true"), i + 4)
       ELSE IF OccursAt(<<"f", "a", "l", "s", "e">>, s, i)
            THEN Parsed(JLit("false"), i + 5)
       ELSE ScanNumber(NumberLen(s, i))

\* the key of an object member at position i and the colon after it: pos is
\* where the member's value starts
ScanKey(s, i) ==
    LET AfterKey(key, c) ==
            IF At(s, c) # ":" THEN ParseError ELSE Parsed(key, SkipWs(s, c + 1))
        KeyColon(k) ==
            IF ~k.ok THEN ParseError ELSE AfterKey(k.val, SkipWs(s, k.pos))
    IN IF At(s, i) # "\"" THEN ParseError
       ELSE KeyColon(ScanString(s, i + 1, <<>>))

\* where scan_once stands, the arrays and objects that are open kept on a
\* stack: with coming = TRUE a value is to start at position i, with
\* coming = FALSE the value val has ended right before position i
Config(i, stack, coming, val) ==
    [ok |-> TRUE, i |-> i, stack |-> stack, coming |-> coming, val |-> val]

\* one step of scan_once from c, ok being FALSE where it raises
Step(s, c) ==
    LET Failed == [ok |-> FALSE, i |-> 0, stack |-> <<>>, coming |-> FALSE,
                   val |-> JNull]
        \* an array or object that is being read: its elements or members so
        \* far, and the key of the member whose value is awaited
        Frame(kind, keys, items, key) ==
            [kind |-> kind, keys |-> keys, items |-> items, key |-> key]
        AwaitMember(k, stack, keys, items) ==
            IF ~k.ok THEN Failed
            ELSE Config(k.pos, Append(stack, Frame("dict", keys, items, k.val.s)),
                        TRUE, JNull)
        AfterScalar(v) ==
            IF ~v.ok THEN Failed ELSE Config(v.pos, c.stack, FALSE, v.val)
        \* a value starts at c.i; j is the first non-blank position after it
        Begin(j) ==
            IF At(s, c.i) = "{" THEN
                IF At(s, j) = "}"
                THEN Config(j + 1, c.stack, FALSE, JDict(<<>>, <<>>))
                ELSE AwaitMember(ScanKey(s, j), c.stack, <<>>, <<>>)
            ELSE IF At(s, c.i) = "[" THEN
                IF At(s, j) = "]" THEN Config(j + 1, c.stack, FALSE, JList(<<>>))
                ELSE Config(j, Append(c.stack, Frame("list", <<>>, <<>>, <<>>)),
                            TRUE, JNull)
            ELSE AfterScalar(ScanScalar(s, c.i))
        \* an element of the array on top of the stack has ended; j is the
        \* first non-blank position after it
        EndElement(j, rest, items) ==
            IF At(s, j) = "]" THEN Config(j + 1, rest, FALSE, JList(items))
            ELSE IF At(s, j) = ","
                 THEN Config(SkipWs(s, j + 1),
                             Append(rest, Frame("list", <<>>, items, <<>>)),
                             TRUE, JNull)
            ELSE Failed
        \* a member of the object on top of the stack has ended
        EndMember(j, rest, d) ==
            IF At(s, j) = "}"
            THEN Config(j + 1, rest, FALSE, JDict(d.keys, d.items))
            ELSE IF At(s, j) = ","
                 THEN AwaitMember(ScanKey(s, SkipWs(s, j + 1)), rest,
                                  d.keys, d.items)
            ELSE Failed
        End(j, top, rest) ==
            IF top.kind = "list"
            THEN EndElement(j, rest, Append(top.items, c.val))
            ELSE EndMember(j, rest,
                           DictSet(top.keys, top.items, top.key, c.val))
    IN IF c.coming THEN Begin(SkipWs(s, c.i + 1))
       ELSE End(SkipWs(s, c.i), c.stack[Len(c.stack)],
                SubSeq(c.stack, 1, Len(c.stack) - 1))

RECURSIVE Scan(_, _)
Scan(s, c) ==
    IF ~c.ok THEN ParseError
    ELSE IF ~c.coming /\ c.stack = <<>> THEN Parsed(c.val, c.i)
    ELSE Scan(s, Step(s, c))

\* scan_once: the value that starts at position i
ScanOnce(s, i) == Scan(s, Config(i, <<>>, TRUE, JNull))

\* json.loads(s): one value with nothing but blanks around it; ok is FALSE
\* where json.loads raises
json_loads(s) ==
    LET WholeOf(v) ==
            IF v.ok /\ SkipWs(s, v.pos) = Len(s) + 1 THEN v ELSE ParseError
    IN WholeOf(ScanOnce(s, SkipWs(s, 1)))

\* ------------------------------------------------------------------------
\* try_parse_json and generate_songs
\* ------------------------------------------------------------------------
\* bool(v) of a parsed value; a number is false when its mantissa is zero
Truth(v) ==
    CASE v.t = "dict" -> v.keys # <<>>
      [] v.t = "list" -> v.items # <<>>
      [] v.t = "str" -> v.s # <<>>
      [] v.t = "num" ->
             \E i \in 1..Len(v.s) :
                 /\ v.s[i] \in Digits \ {"0"}
                 /\ \A j \in 1..i : v.s[j] \notin {"e", "E"}
      [] v.t = "true" -> TRUE
      [] v.t = "float" -> TRUE
      [] OTHER -> FALSE

HasKey(d, key) == \E k \in 1..Len(d.keys) : d.keys[k] = key

\* d.get(key, default)
Get(d, key, default) ==
    IF HasKey(d, key)
    THEN d.items[CHOOSE k \in 1..Len(d.keys) : d.keys[k] = key]
    ELSE default

\* str.find / str.rfind of one character, 0 when it is not there
Find(s, c) ==
    IF \E i \in 1..Len(s) : s[i] = c
    THEN CHOOSE i \in 1..Len(s) : s[i] = c /\ \A j \in 1..(i - 1) : s[j] # c
    ELSE 0

RFind(s, c) ==
    IF \E i \in 1..Len(s) : s[i] = c
    THEN CHOOSE i \in 1..Len(s) : s[i] = c /\ \A j \in (i + 1)..Len(s) : s[j] # c
    ELSE 0

\* the parsed value, or None (the same as a parsed null)
try_parse_json(raw) ==
    LET ValueOr(v, other) == IF v.ok THEN v.val ELSE other
        \* the second attempt: the text from the first { to the last }
        BetweenBraces(start, end) ==
            IF start # 0 /\ end # 0 /\ end > start
            THEN ValueOr(json_loads(SubSeq(raw, start, end)), JNull)
            ELSE JNull
    IN IF raw = <<>> THEN JNull
       ELSE ValueOr(json_loads(raw), BetweenBraces(Find(raw, "{"), RFind(raw, "}")))

SongsKey == <<"s", "o", "n", "g", "s">>
LyricsKey == <<"l", "y", "r", "i", "c", "s">>
TypeKey == <<"t", "y", "p", "e">>
TitleKey == <<"t", "i", "t", "l", "e">>
VibeKey == <<"v", "i", "b", "e", "_", "d", "e", "s", "c", "r", "i", "p", "t", "i", "o", "n">>
Custom == <<"C", "u", "s", "t", "o", "m">>
FallbackTitle ==
    <<"B", "T", "N", " ", "O", "r", "i", "g", "i", "n", "a", "l", "s", " ",
      EmDash, " ", "f", "a", "l", "l", "b", "a", "c", "k", " ", "o", "u",
      "t", "p", "u", "t">>

FenceJson == Fence \o <<"j", "s", "o", "n">>
\* characters of the reply kept as the fallback's vibe_description
VibeLen == 800

\* what a call gives: a value returned, None returned, or an exception that
\* reaches the caller
Returned(v) == [status |-> "returned", value |-> v]
ReturnedNone == [status |-> "none", value |-> JNull]
RaisedOut == [status |-> "raised", value |-> JNull]

\* d[key] = val of a parsed dict
DictPut(d, key, val) ==
    JDict(DictSet(d.keys, d.items, key, val).keys,
          DictSet(d.keys, d.items, key, val).items)

\* s["lyrics"] = clean_lyrics(s.get("lyrics", "")) on one element of the
\* songs: ok is FALSE where it raises (s has no get, or re.sub is handed a
\* value that is not a string)
CleanSong(song) ==
    LET SetLyrics(lyr) ==
            IF ~Truth(lyr)
            THEN [ok |-> TRUE, val |-> DictPut(song, LyricsKey, lyr)]
            ELSE IF lyr.t = "str"
                 THEN [ok |-> TRUE,
                       val |-> DictPut(song, LyricsKey, JStr(clean_lyrics(lyr.s)))]
            ELSE [ok |-> FALSE, val |-> song]
    IN IF song.t # "dict" THEN [ok |-> FALSE, val |-> song]
       ELSE SetLyrics(Get(song, LyricsKey, JStr(<<>>)))

\* for s in parsed.get("songs", []): ... over the value under "songs": a
\* list is gone through; a non-empty string or dict yields strings, which
\* have no get; an empty one yields nothing; anything else is not iterable
CleanSongs(songs) ==
    LET AllCleaned(rs) ==
            IF \A i \in 1..Len(rs) : rs[i].ok
            THEN [ok |-> TRUE, val |-> JList([i \in 1..Len(rs) |-> rs[i].val])]
            ELSE [ok |-> FALSE, val |-> songs]
    IN IF songs.t = "list"
       THEN AllCleaned([i \in 1..Len(songs.items) |-> CleanSong(songs.items[i])])
       ELSE IF songs.t \in {"str", "dict"} /\ ~Truth(songs)
            THEN [ok |-> TRUE, val |-> songs]
       ELSE [ok |-> FALSE, val |-> songs]

\* the dict built on the fallback path
Fallback(cleaned, style_list) ==
    JDict(<<SongsKey>>,
          <<JList(<<JDict(<<TypeKey, TitleKey, VibeKey, LyricsKey>>,
                          <<JStr(IF style_list # <<>> THEN style_list[1] ELSE Custom),
                            JStr(FallbackTitle),
                            JStr(FirstN(cleaned, VibeLen)),
                            JStr(clean_lyrics(cleaned))>>)>>)>>)

\* generate_songs from the model's reply on
RecoverSongs(raw, style_list) ==
    LET \* the parsed reply with its songs cleaned, or the loop's exception
        WithSongs(parsed, r) ==
            IF r.ok THEN Returned(DictPut(parsed, SongsKey, r.val)) ELSE RaisedOut
        SongsOrFallback(cleaned, parsed) ==
            IF Truth(parsed) /\ parsed.t = "dict" /\ HasKey(parsed, SongsKey)
            THEN WithSongs(parsed, CleanSongs(Get(parsed, SongsKey, JList(<<>>))))
            ELSE Returned(Fallback(cleaned, style_list))
        ParseCleaned(cleaned) == SongsOrFallback(cleaned, try_parse_json(cleaned))
    IN ParseCleaned(Strip(Remove(Remove(raw, FenceJson, 1), Fence, 1)))

\* generate_songs: key_set is bool(api_key), model_ok is FALSE when
\* GenerativeModel() raises, reply is the text of the model's response, or
\* Raised when generate_content() raises.  The prompt built from the other
\* arguments goes to the model only, whose reply is any text.
generate_songs(key_set, model_ok, reply, style_list) ==
    IF ~key_set THEN ReturnedNone
    ELSE IF ~model_ok THEN ReturnedNone
    ELSE IF reply = Raised THEN ReturnedNone
    ELSE RecoverSongs(reply, style_list)

\* ------------------------------------------------------------------------
\* Sanitising a text, once and then again
\* ------------------------------------------------------------------------
\* the variables of the other parts, at rest
KwIdle ==
    /\ page_text = <<>>
    /\ nwords = 0
    /\ topn = 0
    /\ common = <<>>
    /\ kpc = "input"

PagesIdle ==
    /\ pdf = <<>>
    /\ max_pages = DefaultMaxPages
    /\ chapter_text = None
    /\ pages = <<>>
    /\ model_available = FALSE
    /\ idx = 0
    /\ results = <<>>
    /\ replies = <<>>
    /\ keywords = None
    /\ ppc = "file"

SongsIdle ==
    /\ api_key_set = FALSE
    /\ styles = <<>>
    /\ raw_text = <<>>
    /\ result = ReturnedNone
    /\ gpc = "enter"

\* the session state as the script's first run sets it
AppIdle ==
    /\ song_data = JNull
    /\ keywords_per_page = None
    /\ uploaded_file = <<>>
    /\ run_text = None
    /\ invoked = FALSE
    /\ notice = "none"
    /\ apc = "idle"

CleanIdle ==
    /\ lyrics = <<>>
    /\ once = <<>>
    /\ twice = <<>>
    /\ cpc = "input"
    /\ nchunks = 0

\* pieces a lyrics text is put together from
MaxChunks == 5

DigitSeq == <<"1", "2", "3", "4", "5", "6", "7", "8", "9">>

DigitOf(n) == DigitSeq[((n - 1) % 9) + 1]

\* the k-th piece: two short numbers (their digits follow from k, so that
\* the numbers of a text differ), a long number, an operator cluster, a word
\* with punctuation or a dollar sign
LyricChunk(k) ==
    {<<DigitOf(2 * k - 1), " ", DigitOf(2 * k), " ">>,
     <<"1", "2", "3", "4", "5">>, <<"=", "=">>, <<"a", "b", ",">>, <<"$">>}

CleanInit ==
    /\ lyrics = <<>>
    /\ once = <<>>
    /\ twice = <<>>
    /\ cpc = "input"
    /\ nchunks = 0
    /\ KwIdle
    /\ PagesIdle
    /\ SongsIdle
    /\ AppIdle

AppendChunk ==
    /\ cpc = "input"
    /\ nchunks < MaxChunks
    /\ \E c \in LyricChunk(nchunks + 1) : lyrics' = lyrics \o c
    /\ nchunks' = nchunks + 1
    /\ UNCHANGED <<once, twice, cpc>>
    /\ UNCHANGED <<kwVars, pageVars, songVars, appVars>>

CleanOnce ==
    /\ cpc = "input"
    /\ once' = clean_lyrics(lyrics)
    /\ cpc' = "once"
    /\ UNCHANGED <<lyrics, twice, nchunks>>
    /\ UNCHANGED <<kwVars, pageVars, songVars, appVars>>

CleanTwice ==
    /\ cpc = "once"
    /\ twice' = clean_lyrics(once)
    /\ cpc' = "twice"
    /\ UNCHANGED <<lyrics, once, nchunks>>
    /\ UNCHANGED <<kwVars, pageVars, songVars, appVars>>

CleanNext == AppendChunk \/ CleanOnce \/ CleanTwice

SpecClean == CleanInit /\ [][CleanNext]_vars

\* the standalone numeric tokens of a text
NumTokens(s) == FindNums(s, 1)

\* C4: sanitising is idempotent: clean_lyrics(clean_lyrics(s)) =
\* clean_lyrics(s) for every text s.
SanitizeIdempotent == cpc = "twice" => twice = once

\* C5 as stated: a text with more than 6 numeric tokens comes out with at
\* most 6 of them, and those are the first 6 numeric tokens of the input.
NumericCapOfInput ==
    (cpc # "input" /\ Len(NumTokens(lyrics)) > NumCap)
        => /\ Len(NumTokens(once)) <= NumCap
           /\ NumTokens(once) = FirstN(NumTokens(lyrics), NumCap)

\* C5 amended: a text with more than 6 numeric tokens comes out with at
\* most 6 of them, and those are the first 6 (all, when fewer remain) of the
\* numeric tokens left after the formula and long-number redactions, in
\* their original order.
NumericCapOfRemaining ==
    (cpc # "input" /\ Len(NumTokens(lyrics)) > NumCap)
        => /\ Len(NumTokens(once)) <= NumCap
           /\ NumTokens(once) =
                  FirstN(NumTokens(RedactFormulasAndLongNums(lyrics)), NumCap)

\* a text of more than six short numbers was sanitised: six are kept, the
\* rest redacted
NumericCapWitness ==
    /\ cpc = "once"
    /\ Len(NumTokens(lyrics)) > NumCap
    /\ Len(NumTokens(RedactFormulasAndLongNums(lyrics))) > NumCap
    /\ Len(NumTokens(once)) = NumCap
    /\ Contains(once, NumTag)

\* ------------------------------------------------------------------------
\* Extracting the keywords of one page
\* ------------------------------------------------------------------------
\* pieces a page is put together from
MaxWords == 4
\* largest topn asked for
MaxTopN == 3

\* a capitalised word, the same word before a comma, a long stopword, a
\* word before a hyphen, digits that run into the next piece, a short word
PageChunks ==
    {<<"A", "t", "o", "m", " ">>, <<"a", "t", "o", "m", ",">>,
     <<"w", "i", "t", "h", " ">>, <<"c", "e", "l", "l", "-">>,
     <<"1", "2">>, <<"m", "a", "t", " ">>}

KwInit == KwIdle /\ CleanIdle /\ PagesIdle /\ SongsIdle /\ AppIdle

AddWord ==
    /\ kpc = "input"
    /\ nwords < MaxWords
    /\ \E c \in PageChunks : page_text' = page_text \o c
    /\ nwords' = nwords + 1
    /\ UNCHANGED <<topn, common, kpc>>
    /\ UNCHANGED <<cleanVars, pageVars, songVars, appVars>>

ExtractKeywords ==
    /\ kpc = "input"
    /\ \E n \in 0..MaxTopN :
           /\ topn' = n
           /\ common' = local_single_word_keywords(page_text, n)
    /\ kpc' = "done"
    /\ UNCHANGED <<page_text, nwords>>
    /\ UNCHANGED <<cleanVars, pageVars, songVars, appVars>>

KwNext == AddWord \/ ExtractKeywords

SpecKw == KwInit /\ [][KwNext]_vars

\* the lowercase tokens of a page
PageTokens(s) ==
    LET ws == Split(BlankPunctuation(s)) IN [i \in 1..Len(ws) |-> Lower(ws[i])]

\* the tokens that survive filtering
Survivors(toks) ==
    {w \in {toks[i] : i \in 1..Len(toks)} :
        Len(w) > 3 /\ ~IsDigit(w) /\ w \notin STOPWORDS}

Frequency(toks, w) == Cardinality({i \in 1..Len(toks) : toks[i] = w})

FirstOccurrence(toks, w) ==
    CHOOSE i \in 1..Len(toks) :
        toks[i] = w /\ \A j \in 1..(i - 1) : toks[j] # w

\* a ranks before b: more frequent, or as frequent and met earlier
RanksBefore(toks, a, b) ==
    \/ Frequency(toks, a) > Frequency(toks, b)
    \/ /\ Frequency(toks, a) = Frequency(toks, b)
       /\ FirstOccurrence(toks, a) < FirstOccurrence(toks, b)

\* C6: local_single_word_keywords returns the first topn distinct surviving
\* tokens (longer than 3, not numeric, not a stopword), by frequency
\* descending and first occurrence ascending; all of them when fewer than
\* topn survive, none when none survive.
KeywordRanking ==
    kpc = "done" =>
        LET toks == PageTokens(page_text)
            surv == Survivors(toks)
        IN /\ Len(common) = (IF Cardinality(surv) < topn
                             THEN Cardinality(surv) ELSE topn)
           /\ \A i \in 1..Len(common) : common[i] \in surv
           /\ \A i, j \in 1..Len(common) :
                  i < j => RanksBefore(toks, common[i], common[j])
           /\ \A w \in surv :
                  (\A i \in 1..Len(common) : common[i] # w)
                      => \A i \in 1..Len(common) :
                             RanksBefore(toks, common[i], w)

\* one keyword was returned although two tokens survive: the more frequent
\* one, although it was met later
KeywordRankingWitness ==
    /\ kpc = "done"
    /\ topn = 1
    /\ Len(common) = 1
    /\ Cardinality(Survivors(PageTokens(page_text))) = 2
    /\ \E w \in Survivors(PageTokens(page_text)) :
           FirstOccurrence(PageTokens(page_text), w)
               < FirstOccurrence(PageTokens(page_text), common[1])

\* ------------------------------------------------------------------------
\* Reading a file and generating its keyword lines
\* ------------------------------------------------------------------------
\* pages of a file
MaxPdfPages == 2
\* a small max_pages, tried next to the default
SmallMaxPages == 1

\* what extract_text() may give for a page: nothing, blanks only, a text, a
\* text with a blank line in it, or an exception
PdfPageKinds ==
    {None, <<" ">>, <<"A", "t", "o", "m", " ", "c", "e", "l", "l">>,
     <<"i", "o", "n", "s", "\n", "\n", "b", "o", "n", "d">>, Raised}

\* no model call was made for the page
NoCall == <<"nocall">>

\* what model.generate_content(prompt).text may do: raise, be empty, hold
\* nothing usable, or hold keywords
Replies ==
    {Raised, <<>>, <<"t", "h", "e", ",", " ", "1", "2">>,
     <<"I", "o", "n", "s", ";", " ", "B", "o", "n", "d">>}

PagesInit == PagesIdle /\ KwIdle /\ CleanIdle /\ SongsIdle /\ AppIdle

AddPage ==
    /\ ppc = "file"
    /\ Len(pdf) < MaxPdfPages
    /\ \E k \in PdfPageKinds : pdf' = Append(pdf, k)
    /\ UNCHANGED <<max_pages, chapter_text, pages, model_available, idx,
                   results, replies, keywords, ppc>>
    /\ UNCHANGED <<cleanVars, kwVars, songVars, appVars>>

ExtractText ==
    /\ ppc = "file"
    /\ \E m \in {SmallMaxPages, DefaultMaxPages} :
           /\ max_pages' = m
           /\ chapter_text' = extract_text_from_pdf(pdf, m)
    /\ ppc' = "extracted"
    /\ UNCHANGED <<pdf, pages, model_available, idx, results, replies, keywords>>
    /\ UNCHANGED <<cleanVars, kwVars, songVars, appVars>>

\* generate_keywords_per_page up to the loop: the early return, the page
\* blocks, and whether a model is there (an API key is set and
\* GenerativeModel() did not raise)
KwStart ==
    /\ ppc = "extracted"
    /\ IF ~Truthy(chapter_text)
       THEN /\ keywords' = NoText
            /\ ppc' = "done"
            /\ UNCHANGED <<pages, model_available>>
       ELSE /\ pages' = PageBlocks(chapter_text, max_pages)
            /\ model_available' \in BOOLEAN
            /\ ppc' = "loop"
            /\ UNCHANGED keywords
    /\ UNCHANGED <<pdf, max_pages, chapter_text, idx, results, replies>>
    /\ UNCHANGED <<cleanVars, kwVars, songVars, appVars>>

\* one pass of the loop
KwPage ==
    /\ ppc = "loop"
    /\ idx < Len(pages)
    /\ \E r \in (IF model_available THEN Replies ELSE {NoCall}) :
           /\ results' = Append(results, PageLine(model_available, pages[idx + 1], r))
           /\ replies' = Append(replies, r)
    /\ idx' = idx + 1
    /\ UNCHANGED <<pdf, max_pages, chapter_text, pages, model_available,
                   keywords, ppc>>
    /\ UNCHANGED <<cleanVars, kwVars, songVars, appVars>>

\* return "\n".join(results)
KwReturn ==
    /\ ppc = "loop"
    /\ idx = Len(pages)
    /\ keywords' = Join(results, <<"\n">>)
    /\ ppc' = "done"
    /\ UNCHANGED <<pdf, max_pages, chapter_text, pages, model_available, idx,
                   results, replies>>
    /\ UNCHANGED <<cleanVars, kwVars, songVars, appVars>>

PagesNext == AddPage \/ ExtractText \/ KwStart \/ KwPage \/ KwReturn

SpecPages == PagesInit /\ [][PagesNext]_vars

\* the lines of a string
LineCount(s) == IF s = <<>> THEN 0 ELSE Len(SplitOn(s, <<"\n">>))

\* C7: the string generate_keywords_per_page returns has one line per page
\* read from the file: as many lines as extract_text_from_pdf read pages.
LinesMatchPagesRead ==
    (ppc = "done" /\ Truthy(chapter_text))
        => LineCount(keywords) = Min(Len(pdf), max_pages)

\* the model call of page i failed: none was made, it raised, or its reply
\* held no usable keyword
PageFailed(i) ==
    \/ ~model_available
    \/ replies[i] = Raised
    \/ ModelKeywords(replies[i]) = <<>>

\* the line the local extractor gives for a page block
LocalLine(text) ==
    IF local_single_word_keywords(text, KeywordsPerPage) = <<>> THEN Dash
    ELSE Join(local_single_word_keywords(text, KeywordsPerPage), CommaSpace)

\* C8: the loop goes through the pages one at a time, and whatever model
\* calls fail it visits every page; a failed page gets the line of the local
\* extractor (or the placeholder), every other page the line of its own
\* reply.
PageFailureIsolation ==
    /\ ppc \in {"loop", "done"} =>
           /\ Len(results) = idx
           /\ Len(replies) = idx
           /\ idx <= Len(pages)
           /\ \A i \in 1..idx :
                  results[i] = (IF PageFailed(i) THEN LocalLine(pages[i])
                                ELSE Join(ModelKeywords(replies[i]), CommaSpace))
    /\ (ppc = "done" /\ Truthy(chapter_text)) =>
           /\ idx = Len(pages)
           /\ keywords = Join(results, <<"\n">>)

\* a loop over two pages ended: the call of the first raised, the second
\* gave keywords
PageFailureIsolationWitness ==
    /\ ppc = "done"
    /\ Len(pages) = 2
    /\ replies[1] = Raised
    /\ results[1] = LocalLine(pages[1])
    /\ ~PageFailed(2)

\* ------------------------------------------------------------------------
\* Generating songs from a reply of the model
\* ------------------------------------------------------------------------
\* the signature phrase
Phrase ==
    <<"b", "e", "y", "o", "n", "d", " ", "t", "h", "e", " ", "n", "o", "t",
      "z">>

\* lyrics that carry the phrase, in another case, and lyrics that do not
SignedLyrics ==
    <<"B", "e", "y", "o", "n", "d", " ", "T", "h", "e", " ", "N", "o", "t",
      "z", " ", "h", "o", "o", "k">>
PlainLyrics ==
    <<"h", "o", "o", "k", " ", "l", "i", "n", "e">>

\* prose that is no JSON, without and with the phrase
Refusal ==
    <<"N", "o", " ", "c", "a", "n", " ", "d", "o", ".">>
SignedProse ==
    <<"y", "e", "a", "h", " ", "b", "e", "y", "o", "n", "d", " ", "t", "h",
      "e", " ", "n", "o", "t", "z">>

Trap == <<"T", "r", "a", "p">>

\* pieces of JSON text
Quoted(s) == <<"\"">> \o s \o <<"\"">>
Member(k, v) == Quoted(k) \o <<":">> \o v
Object(m) == <<"{">> \o m \o <<"}">>
Array(m) == <<"[">> \o m \o <<"]">>
SongsDoc(v) == Object(Member(SongsKey, v))
SongDoc(v) == Object(Member(LyricsKey, v))

\* what the model may say between the wrappings: documents with good songs,
\* with an empty song list, with songs that are not a list of objects, with
\* lyrics that are no string, without the songs key, cut short, and prose
ReplyBodies ==
    {SongsDoc(Array(SongDoc(Quoted(SignedLyrics)))),
     SongsDoc(Array(SongDoc(Quoted(PlainLyrics)))),
     SongsDoc(Array(<<>>)),
     SongsDoc(Quoted(<<"a", "b", "c">>)),
     SongsDoc(<<"7">>),
     SongsDoc(<<"n", "u", "l", "l">>),
     SongsDoc(Array(<<"1">>)),
     SongsDoc(Array(SongDoc(<<"5">>))),
     SongsDoc(Array(Object(<<>>))),
     Object(Member(TitleKey, Quoted(<<"x">>))),
     SongsDoc(Array(SongDoc(Quoted(PlainLyrics)))) \o <<",">>,
     SubSeq(SongsDoc(Array(SongDoc(Quoted(PlainLyrics)))), 1, 20),
     Refusal,
     SignedProse,
     <<>>}

\* the wrappings: none, a code fence, prose around
ReplyWraps ==
    {<<<<>>, <<>>>>,
     <<FenceJson \o <<"\n">>, <<"\n">> \o Fence>>,
     <<<<"S", "u", "r", "e", ":", " ">>, <<" ", "o", "k">>>>}

RawOutputs == {w[1] \o b \o w[2] : w \in ReplyWraps, b \in ReplyBodies}

StyleLists == {<<>>, <<Trap>>}

SongsInit == SongsIdle /\ KwIdle /\ CleanIdle /\ PagesIdle /\ AppIdle

\* if not api_key: return None
GsCheckKey ==
    /\ gpc = "enter"
    /\ api_key_set' \in BOOLEAN
    /\ styles' \in StyleLists
    /\ IF api_key_set'
       THEN gpc' = "init" /\ UNCHANGED result
       ELSE gpc' = "done" /\ result' = ReturnedNone
    /\ UNCHANGED raw_text
    /\ UNCHANGED <<cleanVars, kwVars, pageVars, appVars>>

\* model = genai.GenerativeModel(...), which may raise
GsInitModel ==
    /\ gpc = "init"
    /\ \E model_ok \in BOOLEAN :
           IF model_ok
           THEN gpc' = "call" /\ UNCHANGED result
           ELSE gpc' = "done" /\ result' = ReturnedNone
    /\ UNCHANGED <<api_key_set, styles, raw_text>>
    /\ UNCHANGED <<cleanVars, kwVars, pageVars, appVars>>

\* resp = model.generate_content(prompt), which may raise, and raw_text
GsCall ==
    /\ gpc = "call"
    /\ \E reply \in RawOutputs \cup {Raised} :
           IF reply = Raised
           THEN gpc' = "done" /\ result' = ReturnedNone /\ UNCHANGED raw_text
           ELSE gpc' = "recover" /\ raw_text' = reply /\ UNCHANGED result
    /\ UNCHANGED <<api_key_set, styles>>
    /\ UNCHANGED <<cleanVars, kwVars, pageVars, appVars>>

\* the rest of generate_songs
GsRecover ==
    /\ gpc = "recover"
    /\ result' = RecoverSongs(raw_text, styles)
    /\ gpc' = "done"
    /\ UNCHANGED <<api_key_set, styles, raw_text>>
    /\ UNCHANGED <<cleanVars, kwVars, pageVars, appVars>>

SongsNext == GsCheckKey \/ GsInitModel \/ GsCall \/ GsRecover

SpecSongs == SongsInit /\ [][SongsNext]_vars

\* the song records of a returned result
SongRecords(r) ==
    IF r.status = "returned" /\ Get(r.value, SongsKey, JNull).t = "list"
    THEN Get(r.value, SongsKey, JNull).items
    ELSE <<>>

\* C1: whatever goes into generate_songs, a missing key, a model that
\* cannot be built, a call that raises, garbage or an empty song list, what
\* it returns holds at least one song record: never None, never no song.
NeverEmpty ==
    (gpc = "done" /\ result.status # "raised")
        => (result.status = "returned" /\ Len(SongRecords(result)) >= 1)

\* C2: generate_songs returns normally for every reply of the model, no
\* exception reaches the caller.
NeverRaises == gpc = "done" => result.status # "raised"

HasPhrase(s) == Contains(Lower(s), Phrase)

\* the reply was recovered into song records
SongsRecovered ==
    /\ gpc = "done"
    /\ result.status = "returned"
    /\ Len(SongRecords(result)) >= 1
    /\ raw_text # <<>>

\* C3: when the reply of the model lacks the phrase "beyond the notz", some
\* song record returned carries it in its lyrics, on the parsed path and on
\* the salvage path.
SignatureInvariant ==
    (SongsRecovered /\ ~HasPhrase(raw_text))
        => \E i \in 1..Len(SongRecords(result)) :
               LET lyr == Get(SongRecords(result)[i], LyricsKey, JNull)
               IN lyr.t = "str" /\ HasPhrase(lyr.s)

\* ------------------------------------------------------------------------
\* The Generate Tracks and Clear Results handlers
\* ------------------------------------------------------------------------
\* files that may be uploaded: no page, a page without text, a page of
\* blanks, a page of text, a page that cannot be read, two pages of text
AppFiles ==
    {<<>>, <<None>>, <<<<" ">>>>,
     <<<<"A", "t", "o", "m", " ", "c", "e", "l", "l">>>>,
     <<Raised>>,
     <<<<"A", "t", "o", "m", " ", "c", "e", "l", "l">>,
       <<"i", "o", "n", "s", "\n", "\n", "b", "o", "n", "d">>>>}

\* what the model may answer to the song prompt
AppReplies ==
    {SongsDoc(Array(SongDoc(Quoted(PlainLyrics)))), SongsDoc(Array(<<>>)),
     SongsDoc(<<"7">>), Refusal}

\* the page blocks a text can have
MaxBlocks == 4

AppInit == AppIdle /\ SongsIdle /\ KwIdle /\ CleanIdle /\ PagesIdle

\* a click on Generate Tracks up to the assignment of song_data
ClickGenerate ==
    /\ apc = "idle"
    /\ \E key \in BOOLEAN, final_styles \in StyleLists, file \in AppFiles,
          model_ok \in BOOLEAN, reply \in AppReplies \cup {Raised} :
           LET text == extract_text_from_pdf(file, DefaultMaxPages)
               r == generate_songs(key, model_ok, reply, final_styles)
               gated == ~key \/ final_styles = <<>> \/ ~Truthy(text)
           IN /\ uploaded_file' = file
              /\ invoked' = ~gated
              /\ run_text' = (IF key /\ final_styles # <<>> THEN text ELSE None)
              /\ notice' = (IF ~key THEN "need_key"
                            ELSE IF final_styles = <<>> THEN "need_style"
                            ELSE IF ~Truthy(text) THEN "extract_failed"
                            ELSE IF r.status = "raised" THEN "exception"
                            ELSE IF r.status = "none" THEN "no_data"
                            ELSE "composed")
              /\ IF ~gated /\ r.status = "returned"
                 THEN song_data' = r.value /\ apc' = "keywords"
                 ELSE UNCHANGED <<song_data, apc>>
    /\ UNCHANGED keywords_per_page
    /\ UNCHANGED <<cleanVars, kwVars, pageVars, songVars>>

\* the assignment of keywords_per_page and st.rerun()
ComputeKeywords ==
    /\ apc = "keywords"
    /\ \E available \in BOOLEAN, reply \in Replies :
           keywords_per_page' =
               generate_keywords_per_page(run_text, DefaultMaxPages, available,
                                          [i \in 1..MaxBlocks |-> reply])
    /\ notice' = "generated"
    /\ apc' = "idle"
    /\ UNCHANGED <<song_data, uploaded_file, run_text, invoked>>
    /\ UNCHANGED <<cleanVars, kwVars, pageVars, songVars>>

\* Clear Results that forgets the keywords
ClearResultsSongsOnly ==
    /\ apc = "idle"
    /\ Truth(song_data)
    /\ Truth(Get(song_data, SongsKey, JList(<<>>)))
    /\ song_data' = JNull
    /\ notice' = "cleared"
    /\ UNCHANGED <<keywords_per_page, uploaded_file, run_text, invoked, apc>>
    /\ UNCHANGED <<cleanVars, kwVars, pageVars, songVars>>

\* a click on a Clear Results button, which a tab of a song shows
ClearResults ==
    /\ apc = "idle"
    /\ Truth(song_data)
    /\ Truth(Get(song_data, SongsKey, JList(<<>>)))
    /\ song_data' = JNull
    /\ keywords_per_page' = None
    /\ notice' = "cleared"
    /\ UNCHANGED <<uploaded_file, run_text, invoked, apc>>
    /\ UNCHANGED <<cleanVars, kwVars, pageVars, songVars>>

AppNext == ClickGenerate \/ ComputeKeywords \/ ClearResults

SpecApp == AppInit /\ [][AppNext]_vars

\* the file has a page, among those read, with text on it
HasNonEmptyPage(file) ==
    \E i \in 1..Min(Len(file), DefaultMaxPages) :
        Truthy(file[i]) /\ file[i] # Raised /\ Strip(file[i]) # <<>>

\* C9: generate_songs is invoked only when extraction gave a page with
\* text on it; without any (an error, no page, all pages empty or blank) the
\* extraction failure is shown and generate_songs is not invoked.
InputEmptyGate ==
    /\ invoked => HasNonEmptyPage(uploaded_file)
    /\ (notice \in {"extract_failed", "exception", "no_data", "composed"}
           /\ ~HasNonEmptyPage(uploaded_file))
          => (notice = "extract_failed" /\ ~invoked)

Rejections == {"need_key", "need_style", "extract_failed", "no_data", "exception"}

SessionConsistent == keywords_per_page # None => song_data # JNull

\* C10: keywords_per_page is set only if song_data is; a Generate without
\* result leaves both as they are; a Generate with one sets song_data
\* before the keywords are computed; Clear resets both together.
SessionStateInvariant ==
    /\ []SessionConsistent
    /\ [][notice' \in Rejections => UNCHANGED <<song_data, keywords_per_page>>]_vars
    /\ [][apc' = "keywords"
             => (song_data' # JNull /\ UNCHANGED keywords_per_page)]_vars
    /\ [][keywords_per_page' # keywords_per_page
             => \/ notice' = "cleared"
                \/ (apc = "keywords" /\ song_data # JNull /\ UNCHANGED song_data)]_vars
    /\ [][notice' = "cleared"
             => (song_data' = JNull /\ keywords_per_page' = None)]_vars

\* songs and keywords were generated and then cleared
SessionStateWitness ==
    /\ notice = "cleared"
    /\ song_data = JNull
    /\ keywords_per_page = None
    /\ invoked

====
